---- MODULE Spec2Model ----
(***************************************************************************)
(* Model of the in-memory B+ tree of src/b_pluss_tree.cc.                  *)
(* Nodes live in an arena: node id n is the n-th node allocated by         *)
(* make_shared, and 0 is the null pointer.  A tree value t is the record   *)
(* [root_, nodes]; every private method is an operator from tree to tree.  *)
(***************************************************************************)
EXTENDS Integers, Sequences, FiniteSets, TLC

VARIABLES root_, nodes, last, script, calls, run, look, result

vars == <<root_, nodes, last, script, calls, run, look, result>>

\* ---- bounds of the model ----
\* keys 1..MaxKey are inserted in every order
MaxKey == 10
\* once 1..MaxKey are stored, MaxKey+1 .. MaxDeepKey are inserted in ascending order
MaxDeepKey == 16
\* a key is inserted with value 10 * key + d, d in 0..MaxDelta
MaxDelta == 1
\* d > 0 is used for every UpdStride-th key only
UpdStride == 4

Keys == 1..MaxKey
DeepKeys == (MaxKey + 1)..MaxDeepKey
UpdKeys == {k \in Keys : k % UpdStride = 2}
ValsOf(k) == {10 * k + d : d \in 0..(IF k \in UpdKeys THEN MaxDelta ELSE 0)}
\* keys used to probe search: every key of the universe and both neighbours
ProbeKeys == 0..(MaxDeepKey + 1)

\* ---- program constants ----
kOrder == 4

nullptr == 0
nullopt == <<>>

\* the inserts of main(), in order; each is inserted with value 10 * key
DemoKeys == <<10, 20, 5, 6, 15, 25, 2, 16, 18>>
DemoKeySet == {DemoKeys[i] : i \in 1..Len(DemoKeys)}

\* ---- nodes ----
BPlusLeafNode == [isLeaf_ |-> TRUE, keys_ |-> <<>>, values_ |-> <<>>,
                  next_ |-> nullptr, childPointers_ |-> <<>>]

BPlusInternalNode == [isLeaf_ |-> FALSE, keys_ |-> <<>>, values_ |-> <<>>,
                      next_ |-> nullptr, childPointers_ |-> <<>>]

BPlusTree == [root_ |-> nullptr, nodes |-> <<>>]

\* ---- std::vector helpers ----
\* v.insert(v.begin() + pos, x), pos 0-based
VecInsert(v, pos, x) == SubSeq(v, 1, pos) \o <<x>> \o SubSeq(v, pos + 1, Len(v))

\* the elements [from, end) of v, from 0-based
VecFrom(v, from) == SubSeq(v, from + 1, Len(v))

\* v after v.erase(v.begin() + from, v.end())
VecEraseFrom(v, from) == SubSeq(v, 1, from)

\* std::swap(v[i], v[j]), 1-based positions
VecSwap(v, i, j) == [v EXCEPT ![i] = v[j], ![j] = v[i]]

RECURSIVE ScanKeys_gt(_, _, _)
\* ScanKeys with a strict comparison: a key equal to a separator goes left
ScanKeys_gt(keys, key, i) ==
    IF i < Len(keys) /\ key > keys[i + 1]
    THEN ScanKeys_gt(keys, key, i + 1)
    ELSE i

RECURSIVE ScanKeys(_, _, _)
\* the inner while loop of findLeaf: advance i while key >= keys_[i]
ScanKeys(keys, key, i) ==
    IF i < Len(keys) /\ key >= keys[i + 1]
    THEN ScanKeys(keys, key, i + 1)
    ELSE i

RECURSIVE Descend(_, _, _)
\* the outer while loop of findLeaf
Descend(ns, current, key) ==
    IF current # nullptr /\ ~ns[current].isLeaf_
    THEN Descend(ns, ns[current].childPointers_[ScanKeys(ns[current].keys_, key, 0) + 1], key)
    ELSE current

findLeaf(t, key) == Descend(t.nodes, t.root_, key)

RECURSIVE ScanLeaf_ge(_, _, _)
\* ScanLeaf that stops at the first key not below the searched one
ScanLeaf_ge(keys, key, i) ==
    IF i > Len(keys) THEN 0
    ELSE IF keys[i] >= key THEN i
    ELSE ScanLeaf_ge(keys, key, i + 1)

RECURSIVE ScanLeaf(_, _, _)
\* the for loop of search: the 1-based position of the first match, 0 if none
ScanLeaf(keys, key, i) ==
    IF i > Len(keys) THEN 0
    ELSE IF keys[i] = key THEN i
    ELSE ScanLeaf(keys, key, i + 1)

\* FindDup that never finds the key
FindDup_never(keys, key, i) == 0

RECURSIVE FindDup(_, _, _)
\* the first for loop of insert: the 1-based position of key in the leaf, 0 if none
FindDup(keys, key, i) ==
    IF i > Len(keys) THEN 0
    ELSE IF keys[i] = key THEN i
    ELSE FindDup(keys, key, i + 1)

search(t, key) ==
    IF t.root_ = nullptr THEN nullopt
    ELSE LET leaf == findLeaf(t, key) IN
         IF leaf = nullptr THEN nullopt
         ELSE LET i == ScanLeaf(t.nodes[leaf].keys_, key, 1) IN
              IF i # 0 THEN <<t.nodes[leaf].values_[i]>> ELSE nullopt

RECURSIVE findParent(_, _, _)
RECURSIVE FindParentLoop_shallow(_, _, _, _)
\* FindParentLoop that never looks below the children of current
FindParentLoop_shallow(ns, current, child, j) ==
    IF j > Len(ns[current].childPointers_) THEN nullptr
    ELSE IF ns[current].childPointers_[j] = child THEN current
    ELSE FindParentLoop_shallow(ns, current, child, j + 1)

RECURSIVE FindParentLoop_returnFirst(_, _, _, _)
\* FindParentLoop that returns the result of the first recursive call, found or not
FindParentLoop_returnFirst(ns, current, child, j) ==
    IF j > Len(ns[current].childPointers_) THEN nullptr
    ELSE LET ptr == ns[current].childPointers_[j] IN
         IF ptr = child THEN current
         ELSE IF ~ns[ptr].isLeaf_ THEN findParent(ns, ptr, child)
         ELSE FindParentLoop_returnFirst(ns, current, child, j + 1)

RECURSIVE FindParentLoop(_, _, _, _)
\* the for loop of findParent over childPointers_, j 1-based
FindParentLoop(ns, current, child, j) ==
    IF j > Len(ns[current].childPointers_) THEN nullptr
    ELSE LET ptr == ns[current].childPointers_[j] IN
         IF ptr = child THEN current
         ELSE LET candidate == IF ~ns[ptr].isLeaf_
                               THEN findParent(ns, ptr, child)
                               ELSE nullptr IN
              IF candidate # nullptr THEN candidate
              ELSE FindParentLoop(ns, current, child, j + 1)

findParent(ns, current, child) ==
    IF current = nullptr \/ ns[current].isLeaf_ THEN nullptr
    ELSE FindParentLoop(ns, current, child, 1)

RECURSIVE ChildIdx(_, _, _)
\* the while loop locating leftChild among the parent's children, idx 0-based
ChildIdx(children, leftChild, idx) ==
    IF idx < Len(children) /\ children[idx + 1] # leftChild
    THEN ChildIdx(children, leftChild, idx + 1)
    ELSE idx

RECURSIVE splitInternalNode(_, _)
RECURSIVE insertInternalUpKey(_, _, _, _)

\* LeafFull with a strict comparison
LeafFull_gt(n) == Len(n.keys_) > kOrder

\* ParentFull one key early
ParentFull_early(n) == Len(n.keys_) >= kOrder - 1

\* InternalIsRoot that never holds
InternalIsRoot_never(t, internalNode) == FALSE

\* LeafMid one entry to the right
LeafMid_up(n) == Len(n.keys_) \div 2 + 1

\* PromotedKey taking the second key of the new leaf
PromotedKey_second(newLeafNode) == newLeafNode.keys_[2]

\* InheritedNext that drops the old link
InheritedNext_null(n) == nullptr

\* LeafIsRoot that never holds
LeafIsRoot_never(t, leaf) == FALSE

\* LeafMid one entry to the left
LeafMid_down(n) == Len(n.keys_) \div 2 - 1

\* InternalMid one key to the left
InternalMid_low(n) == (Len(n.keys_) - 1) \div 2

\* UpKey taking the key left of the split point
UpKey_left(n, midIndex) == n.keys_[midIndex]

\* the overflow tests after an insertion into a leaf, a leaf's parent, an internal node's parent
LeafFull(n) == Len(n.keys_) >= kOrder

ParentFull(n) == Len(n.keys_) >= kOrder

UpParentFull(n) == Len(n.keys_) >= kOrder

\* the root tests of the two split routines
LeafIsRoot(t, leaf) == leaf = t.root_

InternalIsRoot(t, internalNode) == internalNode = t.root_

\* the split point of a leaf and the separator promoted from the new right leaf
LeafMid(n) == Len(n.keys_) \div 2

PromotedKey(newLeafNode) == newLeafNode.keys_[1]

\* the next link the new right leaf receives from the leaf being split
InheritedNext(n) == n.next_

\* the split point of an internal node and the separator promoted from it
InternalMid(n) == Len(n.keys_) \div 2

UpKey(n, midIndex) == n.keys_[midIndex + 1]

\* history: event e is appended to the record of the calls of the running insert
Log(t, e) == [t EXCEPT !.calls = Append(@, e)]

\* the record of a findParent(root_, child) call that returned parent
FindParentCall(t, child, parent) ==
    [op |-> "findParent", child |-> child, parent |-> parent, root |-> t.root_,
     holds |-> /\ parent # nullptr
               /\ ~t.nodes[parent].isLeaf_
               /\ \E j \in 1..Len(t.nodes[parent].childPointers_) :
                     t.nodes[parent].childPointers_[j] = child]

\* the record of the insertion of key and rightChild into parent, t the tree after it
LinkCall(t, parent, key, leftChild, rightChild) ==
    [op |-> "link", parent |-> parent, key |-> key, left |-> leftChild, right |-> rightChild,
     keys |-> t.nodes[parent].keys_, children |-> t.nodes[parent].childPointers_]

\* the record of a splitInternalNode(internalNode) call, t the tree before it
SplitCall(t, internalNode, upKey, newInternal) ==
    [op |-> "splitInternal", node |-> internalNode, new |-> newInternal, upKey |-> upKey,
     keys |-> t.nodes[internalNode].keys_, children |-> t.nodes[internalNode].childPointers_,
     wasRoot |-> internalNode = t.root_]

\* keys_.insert / childPointers_.insert of insertInternalNode and insertInternalUpKey
LinkChild(t, parent, key, leftChild, rightChild) ==
    LET p   == t.nodes[parent]
        idx == ChildIdx(p.childPointers_, leftChild, 0)
    IN [t EXCEPT !.nodes[parent] =
            [p EXCEPT !.keys_ = VecInsert(p.keys_, idx, key),
                      !.childPointers_ = VecInsert(p.childPointers_, idx + 1, rightChild)]]

\* insertInternalNode that takes the root for the parent and places the key by key order
insertInternalNode_intoRoot(t, key, leftChild, rightChild) ==
    LET p   == t.nodes[t.root_]
        idx == ScanKeys(p.keys_, key, 0)
        t1  == [t EXCEPT !.nodes[t.root_] =
                   [p EXCEPT !.keys_ = VecInsert(p.keys_, idx, key),
                             !.childPointers_ = VecInsert(p.childPointers_, idx + 1, rightChild)]]
    IN IF ParentFull(t1.nodes[t.root_])
       THEN splitInternalNode(t1, t.root_)
       ELSE t1

insertInternalNode(t, key, leftChild, rightChild) ==
    LET parent == findParent(t.nodes, t.root_, leftChild)
        t0     == Log(t, FindParentCall(t, leftChild, parent))
    IN
    IF parent = nullptr THEN t0
    ELSE LET t1 == Log(LinkChild(t0, parent, key, leftChild, rightChild),
                       LinkCall(LinkChild(t0, parent, key, leftChild, rightChild),
                                parent, key, leftChild, rightChild))
         IN
         IF ParentFull(t1.nodes[parent])
         THEN splitInternalNode(t1, parent)
         ELSE t1

insertInternalUpKey(t, key, leftChild, rightChild) ==
    LET parent == findParent(t.nodes, t.root_, leftChild)
        t0     == Log(t, FindParentCall(t, leftChild, parent))
    IN
    IF parent = nullptr THEN t0
    ELSE LET t1 == Log(LinkChild(t0, parent, key, leftChild, rightChild),
                       LinkCall(LinkChild(t0, parent, key, leftChild, rightChild),
                                parent, key, leftChild, rightChild))
         IN
         IF UpParentFull(t1.nodes[parent])
         THEN splitInternalNode(t1, parent)
         ELSE t1

splitInternalNode(t, internalNode) ==
    LET n           == t.nodes[internalNode]
        midIndex    == InternalMid(n)
        upKey       == UpKey(n, midIndex)
        newInternal == Len(t.nodes) + 1
        newNode     == [BPlusInternalNode EXCEPT
                          !.keys_ = VecFrom(n.keys_, midIndex + 1),
                          !.childPointers_ = VecFrom(n.childPointers_, midIndex + 1)]
        oldNode     == [n EXCEPT
                          !.keys_ = VecEraseFrom(n.keys_, midIndex),
                          !.childPointers_ = VecEraseFrom(n.childPointers_, midIndex + 1)]
        t1          == Log([t EXCEPT !.nodes = Append([t.nodes EXCEPT ![internalNode] = oldNode], newNode)],
                           SplitCall(t, internalNode, upKey, newInternal))
    IN IF InternalIsRoot(t, internalNode)
       THEN LET newRoot_ == [BPlusInternalNode EXCEPT
                               !.keys_ = <<upKey>>,
                               !.childPointers_ = <<internalNode, newInternal>>]
            IN [t1 EXCEPT !.root_ = Len(t1.nodes) + 1, !.nodes = Append(t1.nodes, newRoot_)]
       ELSE insertInternalUpKey(t1, upKey, internalNode, newInternal)

splitLeafNode(t, leaf) ==
    LET n       == t.nodes[leaf]
        mid     == LeafMid(n)
        newLeaf == Len(t.nodes) + 1
        newNode == [BPlusLeafNode EXCEPT
                      !.keys_ = VecFrom(n.keys_, mid),
                      !.values_ = VecFrom(n.values_, mid),
                      !.next_ = InheritedNext(n)]
        oldNode == [n EXCEPT
                      !.keys_ = VecEraseFrom(n.keys_, mid),
                      !.values_ = VecEraseFrom(n.values_, mid),
                      !.next_ = newLeaf]
        newKey  == PromotedKey(newNode)
        t1      == [t EXCEPT !.nodes = Append([t.nodes EXCEPT ![leaf] = oldNode], newNode)]
    IN IF LeafIsRoot(t, leaf)
       THEN LET newRoot_ == [BPlusInternalNode EXCEPT
                               !.keys_ = <<newKey>>,
                               !.childPointers_ = <<leaf, newLeaf>>]
            IN [t1 EXCEPT !.root_ = Len(t1.nodes) + 1, !.nodes = Append(t1.nodes, newRoot_)]
       ELSE insertInternalNode(t1, newKey, leaf, newLeaf)

RECURSIVE Bubble_keysOnly(_, _)
\* Bubble that swaps the keys and leaves the values in place
Bubble_keysOnly(n, i) ==
    IF i > 1 /\ n.keys_[i] < n.keys_[i - 1]
    THEN Bubble_keysOnly([n EXCEPT !.keys_ = VecSwap(n.keys_, i, i - 1)], i - 1)
    ELSE n

RECURSIVE Bubble(_, _)
\* the adjacent-swap loop of insert on a leaf node n, i 1-based (runs while i > 1)
Bubble(n, i) ==
    IF i > 1 /\ n.keys_[i] < n.keys_[i - 1]
    THEN Bubble([n EXCEPT !.keys_ = VecSwap(n.keys_, i, i - 1),
                          !.values_ = VecSwap(n.values_, i, i - 1)], i - 1)
    ELSE n

insert(t, key, value) ==
    IF t.root_ = nullptr
    THEN [t EXCEPT !.root_ = 1,
                   !.nodes = <<[BPlusLeafNode EXCEPT !.keys_ = <<key>>, !.values_ = <<value>>]>>]
    ELSE LET leaf == findLeaf(t, key)
             i    == FindDup(t.nodes[leaf].keys_, key, 1)
         IN IF i # 0
            THEN [t EXCEPT !.nodes[leaf].values_[i] = value]
            ELSE LET n  == t.nodes[leaf]
                     n1 == [n EXCEPT !.keys_ = Append(n.keys_, key),
                                     !.values_ = Append(n.values_, value)]
                     n2 == Bubble(n1, Len(n1.keys_))
                     t1 == [t EXCEPT !.nodes[leaf] = n2]
                 IN IF LeafFull(n2)
                    THEN splitLeafNode(t1, leaf)
                    ELSE t1

\* ---- splitLeafNode, statement by statement ----
\* EraseUpperHalf that leaves the first entry of the upper half in the leaf
EraseUpperHalf_late(t, leaf) ==
    LET n == t.nodes[leaf] IN
    [t EXCEPT !.nodes[leaf] = [n EXCEPT !.keys_ = VecEraseFrom(n.keys_, LeafMid(n) + 1),
                                        !.values_ = VecEraseFrom(n.values_, LeafMid(n) + 1)]]

\* make_shared and the two insert calls: the new leaf receives the upper half
CopyUpperHalf(t, leaf) ==
    LET n == t.nodes[leaf] IN
    [t EXCEPT !.nodes = Append(t.nodes,
        [BPlusLeafNode EXCEPT !.keys_ = VecFrom(n.keys_, LeafMid(n)),
                              !.values_ = VecFrom(n.values_, LeafMid(n))])]

\* the two erase calls: the upper half leaves the original leaf
EraseUpperHalf(t, leaf) ==
    LET n == t.nodes[leaf] IN
    [t EXCEPT !.nodes[leaf] = [n EXCEPT !.keys_ = VecEraseFrom(n.keys_, LeafMid(n)),
                                        !.values_ = VecEraseFrom(n.values_, LeafMid(n))]]

\* the two next_ assignments
ChainNewLeaf(t, leaf, newLeaf) ==
    [t EXCEPT !.nodes[newLeaf].next_ = InheritedNext(t.nodes[leaf]),
              !.nodes[leaf].next_ = newLeaf]

\* the promotion of the separator: a new root, or the insertion into the parent
PromoteNewLeaf(t, leaf, newLeaf) ==
    LET newKey == PromotedKey(t.nodes[newLeaf]) IN
    IF LeafIsRoot(t, leaf)
    THEN LET newRoot_ == [BPlusInternalNode EXCEPT
                            !.keys_ = <<newKey>>,
                            !.childPointers_ = <<leaf, newLeaf>>]
         IN [t EXCEPT !.root_ = Len(t.nodes) + 1, !.nodes = Append(t.nodes, newRoot_)]
    ELSE insertInternalNode(t, newKey, leaf, newLeaf)

\* the statements of insert up to the overflow test: the leaf with the pair in place
AppendToLeaf(t, key, value) ==
    LET leaf == findLeaf(t, key)
        n    == t.nodes[leaf]
        n1   == [n EXCEPT !.keys_ = Append(n.keys_, key), !.values_ = Append(n.values_, value)]
    IN [t EXCEPT !.nodes[leaf] = Bubble(n1, Len(n1.keys_))]

\* insert(key, value) runs into splitLeafNode
WillSplit(t, key) ==
    /\ t.root_ # nullptr
    /\ FindDup(t.nodes[findLeaf(t, key)].keys_, key, 1) = 0
    /\ LeafFull(AppendToLeaf(t, key, 0).nodes[findLeaf(t, key)])

\* the tree after search(key)
AfterSearch_autoInsert(t, key) == IF search(t, key) = nullopt THEN insert(t, key, 0) ELSE t

AfterSearch(t, key) == t

\* ---- the state machine ----
\* no insert call is running
Idle == [pc |-> "idle", leaf |-> nullptr, newLeaf |-> nullptr, key |-> 0, value |-> 0]

\* no search call is in flight
Resting == [pc |-> "idle", key |-> 0, raced |-> FALSE]

\* the tree at the start of a call; calls collects the record of that call
Tree == [root_ |-> root_, nodes |-> nodes, calls |-> <<>>]

\* history: the value of the last insert call of each key inserted so far
Record(k, v) == [x \in (DOMAIN last) \cup {k} |-> IF x = k THEN v ELSE last[x]]

\* history: n when the calls so far are exactly the first n inserts of main(), else -1
Follow(k, v) ==
    IF script >= 0 /\ script < Len(DemoKeys) /\ k = DemoKeys[script + 1] /\ v = 10 * k
    THEN script + 1
    ELSE -1

Init ==
    /\ root_ = BPlusTree.root_
    /\ nodes = BPlusTree.nodes
    /\ last = [x \in {} |-> 0]
    /\ script = 0
    /\ calls = <<>>
    /\ run = Idle
    /\ look = Resting
    /\ result = <<>>

Insert(k, v) ==
    /\ LET t == insert(Tree, k, v) IN
         /\ root_' = t.root_
         /\ nodes' = t.nodes
         /\ calls' = t.calls
    /\ last' = Record(k, v)
    /\ script' = Follow(k, v)
    /\ UNCHANGED <<run, look, result>>

InsertAny == \E k \in Keys : \E v \in ValsOf(k) : Insert(k, v)

\* the largest key inserted so far
MaxStored == CHOOSE k \in DOMAIN last : \A x \in DOMAIN last : x <= k

InsertDeep ==
    /\ Keys \subseteq DOMAIN last
    /\ MaxStored + 1 \in DeepKeys
    /\ Insert(MaxStored + 1, 10 * (MaxStored + 1))

Next == InsertAny \/ InsertDeep

Spec == Init /\ [][Next]_vars

\* the driver of main(): the keys of the demo, each with value 10 * key, in any order
InsertDemo == \E k \in DemoKeySet : Insert(k, 10 * k)

NextDemo == InsertDemo

SpecDemo == Init /\ [][NextDemo]_vars

\* ---- insert statement by statement, and search from a second thread ----
MaxStepKey == 7
StepKeys == 1..MaxStepKey
StepProbes == 0..(MaxStepKey + 1)

\* what a search call gave: an optional value it read from the tree
Returned(opt) == <<[value |-> opt, wild |-> FALSE, died |-> FALSE]>>

\* what a search call gave: an optional that holds an int read from a buffer push_back
\* has freed or from a slot past the end of values_. The int is whatever the heap
\* holds there: any value of type int, the stored one included, and the model leaves
\* it undetermined
Wild == <<[value |-> nullopt, wild |-> TRUE, died |-> FALSE]>>

\* what a search call gave: the death of the process
Died == <<[value |-> nullopt, wild |-> FALSE, died |-> TRUE]>>

\* the search call in flight has overlapped one more step of insert
Overlap == IF look.pc = "searching" THEN [look EXCEPT !.raced = TRUE] ELSE look

\* insert(k, v) is entered
Call(k, v) ==
    /\ run.pc = "idle"
    /\ run' = [Idle EXCEPT !.pc = "called", !.key = k, !.value = v]
    /\ look' = Overlap
    /\ result' = <<>>
    /\ UNCHANGED <<root_, nodes, last, script, calls>>

\* insert(k, v) up to its return, or up to the call of splitLeafNode
BeginInsert ==
    /\ run.pc = "called"
    /\ IF WillSplit(Tree, run.key)
       THEN /\ nodes' = AppendToLeaf(Tree, run.key, run.value).nodes
            /\ run' = [run EXCEPT !.pc = "split", !.leaf = findLeaf(Tree, run.key)]
            /\ UNCHANGED <<root_, last, script, calls>>
       ELSE /\ LET t == insert(Tree, run.key, run.value) IN
                 /\ root_' = t.root_
                 /\ nodes' = t.nodes
                 /\ calls' = t.calls
            /\ last' = Record(run.key, run.value)
            /\ script' = Follow(run.key, run.value)
            /\ run' = Idle
    /\ look' = Overlap
    /\ result' = <<>>

SplitCopy ==
    /\ run.pc = "split"
    /\ nodes' = CopyUpperHalf(Tree, run.leaf).nodes
    /\ run' = [run EXCEPT !.pc = "copied", !.newLeaf = Len(nodes) + 1]
    /\ look' = Overlap
    /\ result' = <<>>
    /\ UNCHANGED <<root_, last, script, calls>>

SplitErase ==
    /\ run.pc = "copied"
    /\ nodes' = EraseUpperHalf(Tree, run.leaf).nodes
    /\ run' = [run EXCEPT !.pc = "erased"]
    /\ look' = Overlap
    /\ result' = <<>>
    /\ UNCHANGED <<root_, last, script, calls>>

SplitChain ==
    /\ run.pc = "erased"
    /\ nodes' = ChainNewLeaf(Tree, run.leaf, run.newLeaf).nodes
    /\ run' = [run EXCEPT !.pc = "chained"]
    /\ look' = Overlap
    /\ result' = <<>>
    /\ UNCHANGED <<root_, last, script, calls>>

SplitPromote ==
    /\ run.pc = "chained"
    /\ LET t == PromoteNewLeaf(Tree, run.leaf, run.newLeaf) IN
         /\ root_' = t.root_
         /\ nodes' = t.nodes
         /\ calls' = t.calls
    /\ last' = Record(run.key, run.value)
    /\ script' = Follow(run.key, run.value)
    /\ run' = Idle
    /\ look' = Overlap
    /\ result' = <<>>

\* search(k) is entered, by the thread of main() between two insert calls or by a
\* second thread while an insert call runs
SearchCall(k) ==
    /\ look.pc = "idle"
    /\ run.pc # "died"
    /\ look' = [pc |-> "searching", key |-> k, raced |-> run.pc # "idle"]
    /\ result' = <<>>
    /\ UNCHANGED <<root_, nodes, last, script, calls, run>>

\* search(k) returns and no insert call ran meanwhile; result holds what the search
\* gave
SearchReturn ==
    /\ look.pc = "searching"
    /\ ~look.raced
    /\ result' = Returned(search(Tree, look.key))
    /\ root_' = AfterSearch(Tree, look.key).root_
    /\ nodes' = AfterSearch(Tree, look.key).nodes
    /\ look' = Resting
    /\ UNCHANGED <<last, script, calls, run>>

\* search(k) returns and an insert call ran meanwhile: the vectors it read were
\* written without synchronisation, so it gives nullopt or an undetermined int
RaceReturn ==
    /\ look.pc = "searching"
    /\ look.raced
    /\ result' \in {Returned(nullopt), Wild}
    /\ look' = Resting
    /\ UNCHANGED <<root_, nodes, last, script, calls, run>>

\* search(k) ran while an insert call ran, read a freed buffer or a child slot not
\* yet written, and the process dies
RaceDeath ==
    /\ look.pc = "searching"
    /\ look.raced
    /\ result' = Died
    /\ look' = Resting
    /\ run' = [run EXCEPT !.pc = "died"]
    /\ UNCHANGED <<root_, nodes, last, script, calls>>

CallAny == \E k \in StepKeys : Call(k, 10 * k)

SearchAny == \E k \in StepProbes : SearchCall(k)

NextSteps ==
    \/ CallAny
    \/ BeginInsert
    \/ SplitCopy
    \/ SplitErase
    \/ SplitChain
    \/ SplitPromote
    \/ SearchAny
    \/ SearchReturn
    \/ RaceReturn
    \/ RaceDeath

SpecSteps == Init /\ [][NextSteps]_vars

\* ---- observations of a tree ----
RECURSIVE SubtreeNodes(_, _)
\* the nodes of the subtree rooted at n
SubtreeNodes(ns, n) ==
    IF ns[n].isLeaf_ THEN {n}
    ELSE {n} \cup UNION {SubtreeNodes(ns, ns[n].childPointers_[j]) :
                            j \in 1..Len(ns[n].childPointers_)}

\* the nodes reachable from the root
Reachable == IF root_ = nullptr THEN {} ELSE SubtreeNodes(nodes, root_)

ReachableLeaves == {n \in Reachable : nodes[n].isLeaf_}

ReachableInternals == {n \in Reachable : ~nodes[n].isLeaf_}

SeqRange(s) == {s[i] : i \in 1..Len(s)}

\* the keys stored in the leaves of the subtree rooted at n
SubtreeKeys(ns, n) ==
    UNION {SeqRange(ns[m].keys_) : m \in {x \in SubtreeNodes(ns, n) : ns[x].isLeaf_}}

RECURSIVE Height(_, _)
\* the number of levels from node r down to a leaf, along child 0
Height(ns, r) ==
    IF r = nullptr THEN 0
    ELSE IF ns[r].isLeaf_ THEN 1
    ELSE 1 + Height(ns, ns[r].childPointers_[1])

RECURSIVE Leftmost(_, _)
\* the leaf reached by always descending into child 0
Leftmost(ns, r) == IF ns[r].isLeaf_ THEN r ELSE Leftmost(ns, ns[r].childPointers_[1])

RECURSIVE LeavesInOrder(_, _)
RECURSIVE LeavesOfChildren(_, _, _)
\* the leaves below n, left to right
LeavesInOrder(ns, n) ==
    IF ns[n].isLeaf_ THEN <<n>> ELSE LeavesOfChildren(ns, n, 1)

LeavesOfChildren(ns, n, j) ==
    IF j > Len(ns[n].childPointers_) THEN <<>>
    ELSE LeavesInOrder(ns, ns[n].childPointers_[j]) \o LeavesOfChildren(ns, n, j + 1)

RECURSIVE Chain(_, _, _)
\* the leaves visited by following next_ from leaf l, at most fuel of them
Chain(ns, l, fuel) ==
    IF l = nullptr \/ fuel = 0 THEN <<>>
    ELSE <<l>> \o Chain(ns, ns[l].next_, fuel - 1)

RECURSIVE ConcatKeys(_, _, _)
\* the concatenation of the key sequences of the leaves ls[i..]
ConcatKeys(ns, ls, i) ==
    IF i > Len(ls) THEN <<>> ELSE ns[ls[i]].keys_ \o ConcatKeys(ns, ls, i + 1)

StrictlyAscending(s) == \A i \in 1..(Len(s) - 1) : s[i] < s[i + 1]

NoRepeat(s) == \A i, j \in 1..Len(s) : i # j => s[i] # s[j]

Stored == DOMAIN last

\* ---- the claims ----

\* C1 (round trip): search of any key inserted so far returns exactly the value
\* of the last insert call of that key.
C1_RoundTrip == \A k \in Stored : search(Tree, k) = <<last[k]>>

\* a three-level tree in which some key has been re-inserted with another value
C1_Witness ==
    /\ Height(nodes, root_) = 3
    /\ \E k \in Stored : last[k] # 10 * k /\ search(Tree, k) = <<last[k]>>

\* C2 (not found): search of a key never passed to insert returns nullopt,
\* in the empty tree as well.
C2_NotFound == \A k \in ProbeKeys \ Stored : search(Tree, k) = nullopt

\* an internal root, and a never-inserted key lying between two stored keys
C2_Witness ==
    /\ Height(nodes, root_) >= 2
    /\ \E k \in ProbeKeys \ Stored :
          /\ k - 1 \in Stored
          /\ k + 1 \in Stored
          /\ search(Tree, k) = nullopt

\* C3 (order invariant): after every completed insert, every reachable leaf holds
\* at most 3 entries and every reachable internal node at most 3 keys.
C3_OrderInvariant ==
    /\ \A n \in ReachableLeaves :
          Len(nodes[n].keys_) <= 3 /\ Len(nodes[n].values_) <= 3
    /\ \A n \in ReachableInternals : Len(nodes[n].keys_) <= 3

\* keys 1..16 are stored, the tree has three levels and a non-root internal node
\* has been split (the root holds two separators)
C3_Witness ==
    /\ Stored = 1..MaxDeepKey
    /\ Height(nodes, root_) = 3
    /\ Len(nodes[root_].keys_) >= 2

\* C4 (separator correctness): for every internal node N and child index i, every
\* key stored below N.children[i] is >= N.keys[i-1] (i > 0) and < N.keys[i]
\* (i < number of keys).
C4_SeparatorCorrect ==
    \A n \in ReachableInternals :
       \A i \in 1..Len(nodes[n].childPointers_) :
          \A k \in SubtreeKeys(nodes, nodes[n].childPointers_[i]) :
             /\ i > 1 => k >= nodes[n].keys_[i - 1]
             /\ i <= Len(nodes[n].keys_) => k < nodes[n].keys_[i]

\* a three-level tree whose root, and one node below it, hold two separators or more
C4_Witness ==
    /\ Height(nodes, root_) = 3
    /\ Len(nodes[root_].keys_) >= 2
    /\ \E j \in 1..Len(nodes[root_].childPointers_) :
          Len(nodes[nodes[root_].childPointers_[j]].keys_) >= 2

\* C5 (sibling chain): in a non-empty tree, following next_ from the leftmost leaf
\* visits every reachable leaf exactly once, left to right, ends at null, and the
\* concatenated keys are strictly ascending and are exactly the stored keys.
C5_SiblingChain ==
    root_ # nullptr =>
       LET chain == Chain(nodes, Leftmost(nodes, root_), Len(nodes) + 1)
           keys  == ConcatKeys(nodes, chain, 1)
       IN /\ chain = LeavesInOrder(nodes, root_)
          /\ NoRepeat(chain)
          /\ SeqRange(chain) = ReachableLeaves
          /\ nodes[chain[Len(chain)]].next_ = nullptr
          /\ StrictlyAscending(keys)
          /\ SeqRange(keys) = Stored
          /\ Len(keys) = Cardinality(Stored)

\* a chain of five leaves or more in which a leaf that is not the last one was
\* split, so that the new leaf was spliced into the middle of the chain
C5_Witness ==
    /\ root_ # nullptr
    /\ Cardinality(ReachableLeaves) >= 5
    /\ \E l \in ReachableLeaves :
          nodes[l].next_ # nullptr /\ nodes[l].next_ > l + 2 /\
          nodes[nodes[l].next_].next_ # nullptr

\* C6 (sortedness): after every completed insert, every leaf's keys are strictly
\* ascending, its values are as many as its keys, and values[i] is the value last
\* inserted for keys[i].
C6_Sortedness ==
    \A n \in ReachableLeaves :
       /\ StrictlyAscending(nodes[n].keys_)
       /\ Len(nodes[n].values_) = Len(nodes[n].keys_)
       /\ \A i \in 1..Len(nodes[n].keys_) :
             /\ nodes[n].keys_[i] \in Stored
             /\ nodes[n].values_[i] = last[nodes[n].keys_[i]]

\* a leaf of three entries whose middle key carries a re-inserted value
C6_Witness ==
    \E n \in ReachableLeaves :
       /\ Len(nodes[n].keys_) = 3
       /\ nodes[n].values_[2] # 10 * nodes[n].keys_[2]
       /\ nodes[n].values_[1] = 10 * nodes[n].keys_[1]

\* the entries of node n whose key is not k, as (position, value) pairs
OtherEntries(ns, n, k) ==
    {<<i, ns[n].values_[i]>> : i \in {j \in 1..Len(ns[n].keys_) : ns[n].keys_[j] # k}}

\* the number of entries stored in the leaves of ns
RECURSIVE EntryCount(_, _)
EntryCount(ns, i) ==
    IF i > Len(ns) THEN 0
    ELSE (IF ns[i].isLeaf_ THEN Len(ns[i].keys_) ELSE 0) + EntryCount(ns, i + 1)

\* what an insert of an already stored key k may change: the value of k only
UpdateFrame(k) ==
    /\ root_' = root_
    /\ Len(nodes') = Len(nodes)
    /\ EntryCount(nodes', 1) = EntryCount(nodes, 1)
    /\ \A n \in 1..Len(nodes) :
          /\ nodes'[n].isLeaf_ = nodes[n].isLeaf_
          /\ nodes'[n].keys_ = nodes[n].keys_
          /\ nodes'[n].childPointers_ = nodes[n].childPointers_
          /\ nodes'[n].next_ = nodes[n].next_
          /\ Len(nodes'[n].values_) = Len(nodes[n].values_)
          /\ ~nodes[n].isLeaf_ => nodes'[n].values_ = nodes[n].values_
          /\ nodes[n].isLeaf_ =>
                /\ OtherEntries(nodes', n, k) = OtherEntries(nodes, n, k)
                /\ \A i \in 1..Len(nodes[n].keys_) :
                      nodes[n].keys_[i] = k => nodes'[n].values_[i] = last'[k]

\* a second insert(k, v) right after insert(k, v) changes nothing
InsertTwiceIsOnce ==
    \A k \in Keys \cup DeepKeys : \A v \in {10 * k, 10 * k + 1} :
       LET t1 == insert(Tree, k, v) IN insert(t1, k, v) = t1

\* C7 (update on duplicate): an insert of a key that is already stored changes only
\* the value of that key: root, node set, key sequences, child sequences, next links,
\* all other values and the entry count stay; and insert(k, v) twice is insert(k, v) once.
C7_UpdateOnDuplicate ==
    /\ [][Stored' = Stored =>
            \E k \in Stored :
               /\ \A x \in Stored \ {k} : last'[x] = last[x]
               /\ UpdateFrame(k)]_vars
    /\ []InsertTwiceIsOnce

\* a three-level tree in which a key routed to the right of the root's first
\* separator carries a re-inserted value
C7_Witness ==
    /\ Height(nodes, root_) = 3
    /\ \E k \in Stored :
          /\ last[k] # 10 * k
          /\ k >= nodes[root_].keys_[1]
          /\ search(Tree, k) = <<last[k]>>

\* the node that was the root before the step has lost keys: it was split
RootWasSplit == Len(nodes'[root_].keys_) < Len(nodes[root_].keys_)

\* C8 (height growth): an insert into a non-empty tree leaves the height unchanged or
\* raises it by exactly one; it raises it exactly when the node that was the root is
\* split, and then the new root's two children are the old root and its new sibling.
C8_HeightGrowth ==
    [][root_ # nullptr =>
         LET h  == Height(nodes, root_)
             h1 == Height(nodes', root_')
         IN /\ h1 = h \/ h1 = h + 1
            /\ (h1 = h + 1) <=> RootWasSplit
            /\ ~RootWasSplit => root_' = root_
            /\ RootWasSplit =>
                  /\ root_' \notin 1..Len(nodes)
                  /\ ~nodes'[root_'].isLeaf_
                  /\ Len(nodes'[root_'].keys_) = 1
                  /\ Len(nodes'[root_'].childPointers_) = 2
                  /\ nodes'[root_'].childPointers_[1] = root_
                  /\ nodes'[root_'].childPointers_[2] \notin 1..Len(nodes)
                  /\ nodes'[root_'].childPointers_[2] # root_'
                  /\ nodes'[nodes'[root_'].childPointers_[2]].isLeaf_ = nodes[root_].isLeaf_
    ]_vars

\* the root is the node allocated last and stands above two internal nodes: the last
\* structural change was a split of an internal root
C8_Witness ==
    /\ Height(nodes, root_) = 3
    /\ root_ = Len(nodes)
    /\ nodes[root_].childPointers_[2] = root_ - 1
    /\ ~nodes[root_ - 1].isLeaf_

\* all calls so far are the nine inserts of main(), in order
DemoDone == script = Len(DemoKeys)

\* C9 as stated (scenario 3): after the nine inserts of main() the tree has 3 levels.
C9_ThreeLevels == DemoDone => Height(nodes, root_) = 3

\* C9 as amended: after the nine inserts of main() the tree has 2 levels: only leaf
\* splits happened, the single internal node is the root, with separators 10, 16, 20
\* above four leaves.
C9_TwoLevels ==
    DemoDone =>
       /\ Height(nodes, root_) = 2
       /\ Cardinality({n \in 1..Len(nodes) : ~nodes[n].isLeaf_}) = 1
       /\ Cardinality({n \in 1..Len(nodes) : nodes[n].isLeaf_}) = 4
       /\ nodes[root_].keys_ = <<10, 16, 20>>
       /\ LET ls == LeavesInOrder(nodes, root_) IN
             <<nodes[ls[1]].keys_, nodes[ls[2]].keys_, nodes[ls[3]].keys_, nodes[ls[4]].keys_>>
                = << <<2, 5, 6>>, <<10, 15>>, <<16, 18>>, <<20, 25>> >>

\* the nine inserts of main() are done and its searches give 180 for 18, nothing for 30
C9_Witness ==
    /\ DemoDone
    /\ search(Tree, 18) = <<180>>
    /\ search(Tree, 30) = nullopt

RECURSIVE SortedSeq(_)
\* the elements of a set of integers in ascending order
SortedSeq(S) ==
    IF S = {} THEN <<>>
    ELSE LET m == CHOOSE x \in S : \A y \in S : x <= y IN <<m>> \o SortedSeq(S \ {m})

ValuesOf(keys) == [i \in 1..Len(keys) |-> last[keys[i]]]

\* C10 (first root split): while one to three distinct keys are stored the root is a
\* single leaf; once four are stored the root is an internal node with one separator,
\* the third-smallest key, above two leaves: the left one holds the two smallest keys,
\* the right one the two largest, each with its value; left.next is the right leaf and
\* right.next is null.
C10_FirstRootSplit ==
    LET sorted == SortedSeq(Stored) IN
    /\ Cardinality(Stored) \in 1..3 =>
          /\ root_ # nullptr
          /\ nodes[root_].isLeaf_
          /\ Len(nodes) = 1
          /\ nodes[root_].keys_ = sorted
          /\ nodes[root_].values_ = ValuesOf(sorted)
          /\ nodes[root_].next_ = nullptr
    /\ Cardinality(Stored) = 4 =>
          /\ root_ # nullptr
          /\ ~nodes[root_].isLeaf_
          /\ nodes[root_].keys_ = <<sorted[3]>>
          /\ Len(nodes[root_].childPointers_) = 2
          /\ LET left  == nodes[root_].childPointers_[1]
                 right == nodes[root_].childPointers_[2]
             IN /\ nodes[left].isLeaf_ /\ nodes[right].isLeaf_
                /\ nodes[left].keys_ = SubSeq(sorted, 1, 2)
                /\ nodes[right].keys_ = SubSeq(sorted, 3, 4)
                /\ nodes[left].values_ = ValuesOf(SubSeq(sorted, 1, 2))
                /\ nodes[right].values_ = ValuesOf(SubSeq(sorted, 3, 4))
                /\ nodes[left].next_ = right
                /\ nodes[right].next_ = nullptr

\* four keys are stored under an internal root whose right leaf starts at the separator
C10_Witness ==
    /\ Cardinality(Stored) = 4
    /\ ~nodes[root_].isLeaf_
    /\ nodes[nodes[root_].childPointers_[2]].keys_[1] = nodes[root_].keys_[1]
    /\ Len(nodes) = 3

\* the positions of the events of kind op in the record of the last insert call
CallsOf(op) == {i \in 1..Len(calls) : calls[i].op = op}

\* C11 (parent lookup never fails): every findParent call of the last insert was made
\* for a non-root node and returned an internal node holding that node among its
\* children; the promoted key and the new sibling were then inserted into that node,
\* so the early return is not taken and no node created so far is unreachable.
C11_ParentFound ==
    /\ \A i \in CallsOf("findParent") :
          /\ calls[i].child # calls[i].root
          /\ calls[i].parent # nullptr
          /\ calls[i].holds
          /\ i < Len(calls)
          /\ calls[i + 1].op = "link"
          /\ calls[i + 1].parent = calls[i].parent
          /\ calls[i + 1].left = calls[i].child
    /\ Reachable = 1..Len(nodes)

\* the last insert looked up the parent of a leaf and then the parent of the
\* internal node it had split
C11_Witness ==
    /\ Cardinality(CallsOf("findParent")) = 2
    /\ Cardinality(CallsOf("splitInternal")) = 1
    /\ \A i \in CallsOf("findParent") : calls[i].holds

RECURSIVE NodesInOrder(_, _)
RECURSIVE NodesOfChildren(_, _, _)
\* the nodes met by following child references from n, in visiting order
NodesInOrder(ns, n) ==
    IF ns[n].isLeaf_ THEN <<n>> ELSE <<n>> \o NodesOfChildren(ns, n, 1)

NodesOfChildren(ns, n, j) ==
    IF j > Len(ns[n].childPointers_) THEN <<>>
    ELSE NodesInOrder(ns, ns[n].childPointers_[j]) \o NodesOfChildren(ns, n, j + 1)

\* the places (parent, position) at which node n occurs as a child
ChildSlots(n) ==
    UNION {{<<p, j>> : j \in {i \in 1..Len(nodes[p].childPointers_) :
                                 nodes[p].childPointers_[i] = n}} : p \in 1..Len(nodes)}

\* C12 (exclusive ownership): after every completed insert every node ever created is
\* reachable from the root, every non-root node occurs exactly once among all child
\* sequences, the root occurs in none, and following child references never meets a
\* node twice.
C12_ExclusiveOwnership ==
    root_ # nullptr =>
       /\ SeqRange(NodesInOrder(nodes, root_)) = 1..Len(nodes)
       /\ NoRepeat(NodesInOrder(nodes, root_))
       /\ ChildSlots(root_) = {}
       /\ \A n \in (1..Len(nodes)) \ {root_} : Cardinality(ChildSlots(n)) = 1

\* a three-level tree of twelve nodes or more whose root was replaced twice
C12_Witness ==
    /\ Height(nodes, root_) = 3
    /\ Len(nodes) >= 12
    /\ Len(nodes[root_].childPointers_) = 3
    /\ Len(NodesInOrder(nodes, root_)) = Len(nodes)

\* C13 (search is read-only): a search(k) call on the tree some inserts have built,
\* for a stored or a missing key, leaves the root reference and every node's keys,
\* values, child sequence and next link as they were.
C13_SearchReadOnly ==
    [][SearchReturn => (root_' = root_ /\ nodes' = nodes)]_vars

\* between two inserts a search has found a stored key in a two-level tree, which
\* still holds it
C13_Witness ==
    /\ run.pc = "idle"
    /\ result # <<>>
    /\ ~result[1].wild
    /\ result[1].value # nullopt
    /\ Height(nodes, root_) = 2
    /\ \E k \in Stored : search(Tree, k) = result[1].value

\* the keys the running leaf split has moved out of the original leaf, the key of the
\* running insert excepted
MovedKeys == SeqRange(nodes[run.newLeaf].keys_) \ {run.key}

\* the running insert stands between the erase calls and the promotion
MidSplit == run.pc \in {"erased", "chained"}

\* C16 (insert is not atomic): while a leaf split stands between the erase of the upper
\* half and the linking of the new leaf, some key is moved to the new leaf, and every
\* such key was stored by a completed insert and is on no leaf that the descent from
\* the root arrives at: search on that tree returns nullopt for it.
C16_SearchDuringSplit ==
    MidSplit =>
        /\ MovedKeys # {}
        /\ \A k \in MovedKeys : k \in Stored /\ search(Tree, k) = nullopt

\* a search ran from a second thread right after the erase calls, while keys stored
\* by earlier inserts were off the descent path, and returned nullopt
C16_Witness ==
    /\ run.pc = "erased"
    /\ MovedKeys # {}
    /\ \A k \in MovedKeys : k \in Stored /\ search(Tree, k) = nullopt
    /\ result = Returned(nullopt)

\* the number of internal-node key slots that hold key k
SeparatorSlots(k) ==
    UNION {{<<n, i>> : i \in {j \in 1..Len(nodes[n].keys_) : nodes[n].keys_[j] = k}} :
              n \in {m \in 1..Len(nodes) : ~nodes[m].isLeaf_}}

\* C14 (internal split result): every split of an internal node with keys k0..k3 and
\* children c0..c4 leaves the node with [k0,k1] and [c0,c1,c2], gives the new node
\* [k3] and [c3,c4], and puts k2 in neither of them but exactly once one level up: as
\* the only key of a new root above the two nodes when the node was the root, otherwise
\* in its parent, with the new node as the child right after the original one.
C14_InternalSplit ==
    \A i \in CallsOf("splitInternal") :
       LET e == calls[i]
           k == e.keys
           c == e.children
       IN /\ Len(k) = 4 /\ Len(c) = 5
          /\ k[1] < k[2] /\ k[2] < k[3] /\ k[3] < k[4]
          /\ nodes[e.node].keys_ = <<k[1], k[2]>>
          /\ nodes[e.node].childPointers_ = <<c[1], c[2], c[3]>>
          /\ nodes[e.new].keys_ = <<k[4]>>
          /\ nodes[e.new].childPointers_ = <<c[4], c[5]>>
          /\ ~nodes[e.new].isLeaf_
          /\ e.upKey = k[3]
          /\ Cardinality(SeparatorSlots(k[3])) = 1
          /\ e.wasRoot =>
                /\ root_ \notin {e.node, e.new}
                /\ nodes[root_].keys_ = <<k[3]>>
                /\ nodes[root_].childPointers_ = <<e.node, e.new>>
          /\ ~e.wasRoot =>
                /\ i + 2 <= Len(calls)
                /\ calls[i + 1].op = "findParent"
                /\ calls[i + 1].child = e.node
                /\ calls[i + 2].op = "link"
                /\ calls[i + 2].parent = calls[i + 1].parent
                /\ calls[i + 2].key = k[3]
                /\ \E j \in 1..Len(calls[i + 2].keys) :
                      /\ calls[i + 2].children[j] = e.node
                      /\ calls[i + 2].keys[j] = k[3]
                      /\ calls[i + 2].children[j + 1] = e.new
                      /\ \A x \in 1..Len(calls[i + 2].keys) :
                            calls[i + 2].keys[x] = k[3] => x = j

\* the last insert split an internal node below the root and put the middle key
\* into the root
C14_Witness ==
    \E i \in CallsOf("splitInternal") :
       /\ ~calls[i].wasRoot
       /\ calls[i].upKey \in SeqRange(nodes[root_].keys_)
       /\ calls[i].upKey \notin SeqRange(nodes[calls[i].node].keys_)

RECURSIVE DescentPath(_, _, _)
\* the nodes findLeaf(key) visits from node current down to the leaf, in order
DescentPath(ns, current, key) ==
    IF current = nullptr THEN <<>>
    ELSE IF ns[current].isLeaf_ THEN <<current>>
    ELSE <<current>> \o
         DescentPath(ns, ns[current].childPointers_[ScanKeys(ns[current].keys_, key, 0) + 1], key)

\* the node visited immediately before child on the path, nullptr if there is none
PathParent(path, child) ==
    IF \E i \in 2..Len(path) : path[i] = child
    THEN path[(CHOOSE i \in 2..Len(path) : path[i] = child) - 1]
    ELSE nullptr

RECURSIVE PromoteByPath(_, _, _, _, _)
RECURSIVE SplitByPath(_, _, _)
\* the promotion of key and rightChild with the parent taken from the recorded path
PromoteByPath(t, path, key, leftChild, rightChild) ==
    LET parent == PathParent(path, leftChild) IN
    IF parent = nullptr THEN t
    ELSE LET t1 == LinkChild(t, parent, key, leftChild, rightChild) IN
         IF Len(t1.nodes[parent].keys_) >= kOrder
         THEN SplitByPath(t1, path, parent)
         ELSE t1

\* the internal split with the parent taken from the recorded path
SplitByPath(t, path, internalNode) ==
    LET n           == t.nodes[internalNode]
        midIndex    == Len(n.keys_) \div 2
        upKey       == n.keys_[midIndex + 1]
        newInternal == Len(t.nodes) + 1
        newNode     == [BPlusInternalNode EXCEPT
                          !.keys_ = VecFrom(n.keys_, midIndex + 1),
                          !.childPointers_ = VecFrom(n.childPointers_, midIndex + 1)]
        oldNode     == [n EXCEPT
                          !.keys_ = VecEraseFrom(n.keys_, midIndex),
                          !.childPointers_ = VecEraseFrom(n.childPointers_, midIndex + 1)]
        t1          == [t EXCEPT !.nodes = Append([t.nodes EXCEPT ![internalNode] = oldNode], newNode)]
    IN IF internalNode = t.root_
       THEN [t1 EXCEPT !.root_ = Len(t1.nodes) + 1,
                       !.nodes = Append(t1.nodes,
                                    [BPlusInternalNode EXCEPT
                                       !.keys_ = <<upKey>>,
                                       !.childPointers_ = <<internalNode, newInternal>>])]
       ELSE PromoteByPath(t1, path, upKey, internalNode, newInternal)

\* insert of a key that is not stored, with the ancestors recorded during the descent
\* in place of findParent
InsertByPath(t, key, value) ==
    IF t.root_ = nullptr THEN insert(t, key, value)
    ELSE LET path == DescentPath(t.nodes, t.root_, key)
             leaf == path[Len(path)]
             t1   == AppendToLeaf(t, key, value)
         IN IF Len(t1.nodes[leaf].keys_) < kOrder THEN t1
            ELSE LET t2      == ChainNewLeaf(EraseUpperHalf(CopyUpperHalf(t1, leaf), leaf),
                                             leaf, Len(t1.nodes) + 1)
                     newLeaf == Len(t1.nodes) + 1
                     newKey  == t2.nodes[newLeaf].keys_[1]
                 IN IF leaf = t.root_
                    THEN [t2 EXCEPT !.root_ = Len(t2.nodes) + 1,
                                    !.nodes = Append(t2.nodes,
                                                 [BPlusInternalNode EXCEPT
                                                    !.keys_ = <<newKey>>,
                                                    !.childPointers_ = <<leaf, newLeaf>>])]
                    ELSE PromoteByPath(t2, path, newKey, leaf, newLeaf)

\* C15 (parent lookup agrees with the descent path): in every insert of a new key k,
\* each findParent call returns the node that findLeaf(k) visited immediately before
\* the node asked for, and the tree after the insert is the tree obtained with the
\* recorded ancestors in place of the depth-first parent search.
C15_ParentIsPathPredecessor ==
    [][Stored' # Stored =>
         LET k    == CHOOSE x \in Stored' \ Stored : TRUE
             path == DescentPath(nodes, root_, k)
             byPath == InsertByPath(Tree, k, last'[k])
         IN /\ \A i \in 1..Len(calls') :
                  calls'[i].op = "findParent" =>
                     /\ calls'[i].parent # nullptr
                     /\ calls'[i].parent = PathParent(path, calls'[i].child)
            /\ root_' = byPath.root_
            /\ nodes' = byPath.nodes
    ]_vars

\* the last insert asked for the parent of a node that lies below a child of the root
\* other than its first one, so the depth-first search had to pass a whole subtree
C15_Witness ==
    \E i \in CallsOf("findParent") :
       /\ calls[i].holds
       /\ calls[i].parent # calls[i].root
       /\ nodes[calls[i].root].childPointers_[1] # calls[i].parent

RECURSIVE LeafDepths(_, _, _)
\* the depths at which the leaves below n lie, n itself lying at depth d
LeafDepths(ns, n, d) ==
    IF ns[n].isLeaf_ THEN {d}
    ELSE UNION {LeafDepths(ns, ns[n].childPointers_[j], d + 1) :
                   j \in 1..Len(ns[n].childPointers_)}

\* C17 (balance): in a non-empty tree all reachable leaves lie at the same depth, and
\* the children of an internal node are either all leaves or all internal nodes.
C17_Balanced ==
    root_ # nullptr =>
       /\ Cardinality(LeafDepths(nodes, root_, 1)) = 1
       /\ \A n \in ReachableInternals :
             \A i, j \in 1..Len(nodes[n].childPointers_) :
                nodes[nodes[n].childPointers_[i]].isLeaf_ = nodes[nodes[n].childPointers_[j]].isLeaf_

\* a three-level tree with seven leaves or more, all at depth three
C17_Witness ==
    /\ root_ # nullptr
    /\ LeafDepths(nodes, root_, 1) = {3}
    /\ Cardinality(ReachableLeaves) >= 7

\* C18 (occupancy and arity): in a non-empty tree every internal node has 1 to 3 keys
\* and one child more than keys, a root leaf has 1 to 3 entries, every other leaf has
\* 2 or 3 entries; no reachable node is empty.
C18_Occupancy ==
    root_ # nullptr =>
       /\ \A n \in ReachableInternals :
             /\ Len(nodes[n].keys_) \in 1..3
             /\ Len(nodes[n].childPointers_) = Len(nodes[n].keys_) + 1
       /\ \A n \in ReachableLeaves :
             /\ Len(nodes[n].keys_) \in (IF n = root_ THEN 1..3 ELSE 2..3)
             /\ Len(nodes[n].values_) = Len(nodes[n].keys_)

\* an internal node with one key, one with three keys, a leaf with two entries and a
\* leaf with three entries in the same tree
C18_Witness ==
    /\ root_ # nullptr
    /\ \E n \in ReachableInternals : Len(nodes[n].keys_) = 1
    /\ \E n \in ReachableInternals : Len(nodes[n].keys_) = 3
    /\ \E n \in ReachableLeaves : Len(nodes[n].keys_) = 2
    /\ \E n \in ReachableLeaves : Len(nodes[n].keys_) = 3

SetMin(S) == CHOOSE x \in S : \A y \in S : x <= y

\* the keys stored in the reachable leaves
LeafKeys == UNION {SeqRange(nodes[n].keys_) : n \in ReachableLeaves}

\* C19 (separators are stored minimum keys): every separator N.keys[i] is the smallest
\* key stored below N.children[i+1]; so it is a key stored in a leaf, the separators of
\* a node are strictly ascending, and no key is a separator in two places.
C19_SeparatorIsMinimum ==
    /\ \A n \in ReachableInternals :
          /\ \A i \in 1..Len(nodes[n].keys_) :
                /\ SubtreeKeys(nodes, nodes[n].childPointers_[i + 1]) # {}
                /\ nodes[n].keys_[i] = SetMin(SubtreeKeys(nodes, nodes[n].childPointers_[i + 1]))
                /\ nodes[n].keys_[i] \in LeafKeys
                /\ nodes[n].keys_[i] \in Stored
          /\ StrictlyAscending(nodes[n].keys_)
    /\ \A k \in LeafKeys : Cardinality(SeparatorSlots(k)) <= 1

\* a three-level tree whose root holds two separators, each the first key of the
\* leftmost leaf two levels below it and no separator of the node in between
C19_Witness ==
    /\ Height(nodes, root_) = 3
    /\ Len(nodes[root_].keys_) = 2
    /\ \A i \in 1..2 :
          LET mid == nodes[root_].childPointers_[i + 1] IN
          /\ nodes[Leftmost(nodes, mid)].keys_[1] = nodes[root_].keys_[i]
          /\ nodes[root_].keys_[i] \notin SeqRange(nodes[mid].keys_)

====
